---- MODULE Spec2Model ----
(***************************************************************************)
(* Model of src/utils.py of the mirrors service: the loading of the main   *)
(* config (process_main_config, get_config), the discovery of the mirror   *)
(* configs (get_mirror_config, get_mirrors_info) and the availability      *)
(* probe of one mirror (mirror_available).                                 *)
(*                                                                         *)
(* Text is modelled as a sequence of tokens; the separator "/" is always a *)
(* token of its own, so that startswith('/') and endswith('/') are tests   *)
(* on the first and the last token.                                        *)
(***************************************************************************)
EXTENDS Integers, Sequences, FiniteSets, TLC

VARIABLES
    mirrors,             \* the MirrorData of each probe (one per coroutine)
    versions,            \* the caller's list of versions (shared by the probes)
    repos,               \* the caller's list of RepoData (shared by the probes)
    arches,              \* the caller's list of default arches (shared)
    required_protocols,  \* the caller's list of protocols (shared)
    net,                 \* the answers of the network so far: URL -> outcome
    pc,                  \* per probe: "start", "awaiting", "returned", "raised"
    frame,               \* per probe: the locals of mirror_available
    reqs,                \* per probe: the requests issued, in order
    resps,               \* per probe: the outcomes received, in order
    result,              \* per probe: <<>> or the returned <<name, available>>
    call,                \* "first" or "second" invocation of the probe
    prev,                \* what the first invocation ended with
    caller0,             \* the caller's arguments as they were before any call
    doc,                 \* the YAML document handed to process_main_config
    loaded,              \* what get_config produced for doc
    files,               \* the descriptor files of the mirrors directory
    fidx,                \* get_mirrors_info: number of files handled so far
    found,               \* get_mirrors_info: the result list so far
    dstate               \* get_mirrors_info: "running", "returned", "raised"

probeVars == <<mirrors, versions, repos, arches, required_protocols, net, pc,
               frame, reqs, resps, result, call, prev, caller0>>
loadVars == <<doc, loaded>>
discVars == <<files, fidx, found, dstate>>
vars == <<probeVars, loadVars, discVars>>

----------------------------------------------------------------------------
(* Bounds of the model *)

MaxVersions == 2
MaxRepos == 2
MaxFiles == 3

----------------------------------------------------------------------------
(* Python values and text *)

PyInt(n) == [kind |-> "int", n |-> n, s |-> ""]
PyStr(s) == [kind |-> "str", n |-> 0, s |-> s]

Digit == <<"0", "1", "2", "3", "4", "5", "6", "7", "8", "9">>

RECURSIVE IntToStr(_)
IntToStr(n) ==
    IF n < 10 THEN Digit[n + 1] ELSE IntToStr(n \div 10) \o Digit[(n % 10) + 1]

\* str(version): a str is itself, an int is its decimal representation
ToStr(v) == IF v.kind = "int" THEN IntToStr(v.n) ELSE v.s

\* `x in list`
InList(x, list) == \E i \in 1..Len(list) : list[i] = x

\* text.replace(old, new), old and new being one token each
Replace(text, old, new) ==
    [i \in 1..Len(text) |-> IF text[i] = old THEN new ELSE text[i]]

StartsWithSep(text) == text # <<>> /\ text[1] = "/"
EndsWithSep(text) == text # <<>> /\ text[Len(text)] = "/"

\* os.path.join(a, *p) of posixpath
RECURSIVE PathJoinFrom(_, _, _)
PathJoinFrom(path, parts, i) ==
    IF i > Len(parts) THEN path
    ELSE LET b == parts[i]
             joined == IF StartsWithSep(b) THEN b
                       ELSE IF path = <<>> \/ EndsWithSep(path) THEN path \o b
                       ELSE path \o <<"/">> \o b
         IN PathJoinFrom(joined, parts, i + 1)

PathJoin(parts) == PathJoinFrom(parts[1], parts, 2)

----------------------------------------------------------------------------
(* process_main_config and get_config *)

\* A YAML document is a record; its field `keys` is the set of its top-level
\* keys and `schema_valid` the answer of jsonschema's validate for it. A repo
\* item likewise carries the set of its keys.

\* config_validation: (True, None) or (False, err.message)
config_validation(yaml_data) ==
    IF yaml_data.schema_valid THEN [ok |-> TRUE, err |-> <<>>]
    ELSE [ok |-> FALSE, err |-> <<"ValidationError", "schema">>]

\* repo.get(key, [])
RepoGet(repo, key) == IF key \in repo.keys THEN repo[key] ELSE <<>>

\* _process_repo_attributes: the list itself, or the ValidationError for the
\* first element that is absent from attributes
RECURSIVE ProcessRepoAttributesFrom(_, _, _, _)
ProcessRepoAttributesFrom(repo_name, repo_attributes, attributes, i) ==
    IF i > Len(repo_attributes) THEN [ok |-> TRUE, value |-> repo_attributes]
    ELSE IF ~InList(repo_attributes[i], attributes)
    THEN [ok |-> FALSE,
          err |-> <<"ValidationError", repo_name, repo_attributes[i]>>]
    ELSE ProcessRepoAttributesFrom(repo_name, repo_attributes, attributes, i + 1)

ProcessRepoAttributes(repo_name, repo_attributes, attributes) ==
    ProcessRepoAttributesFrom(repo_name, repo_attributes, attributes, 1)

\* the list the check of the repo's arches is made against
ArchAttributes(yaml_data) == yaml_data.arches

\* the list the check of the repo's versions is made against
VersionAttributes(yaml_data) == yaml_data.arches

\* RepoData(...) for one item of yaml_data['repos']
BuildRepo(yaml_data, repo) ==
    LET as == ProcessRepoAttributes(repo.name, RepoGet(repo, "arches"),
                                    ArchAttributes(yaml_data))
        strs == [i \in 1..Len(RepoGet(repo, "versions")) |->
                    ToStr(RepoGet(repo, "versions")[i])]
        vs == ProcessRepoAttributes(repo.name, strs, VersionAttributes(yaml_data))
    IN IF ~as.ok THEN as
       ELSE IF ~vs.ok THEN vs
       ELSE [ok |-> TRUE,
             value |-> [name |-> repo.name, path |-> repo.path,
                        arches |-> as.value, versions |-> vs.value]]

RECURSIVE BuildRepos(_, _, _)
BuildRepos(yaml_data, i, acc) ==
    IF i > Len(yaml_data.repos) THEN [ok |-> TRUE, value |-> acc]
    ELSE LET r == BuildRepo(yaml_data, yaml_data.repos[i])
         IN IF ~r.ok THEN r
            ELSE BuildRepos(yaml_data, i + 1, Append(acc, r.value))

\* the keys process_main_config subscripts, in the order it evaluates them
MainKeys == <<"allowed_outdate", "mirrors_dir", "versions", "duplicated_versions",
              "arches", "required_protocols", "repos">>

RECURSIVE FirstMissing(_, _, _)
FirstMissing(keys, wanted, i) ==
    IF i > Len(wanted) THEN 0
    ELSE IF wanted[i] \notin keys THEN i
    ELSE FirstMissing(keys, wanted, i + 1)

\* process_main_config: (MainConfig, None), (None, err.message), or the
\* KeyError of yaml_data[key], which it does not catch
process_main_config(yaml_data) ==
    LET missing == FirstMissing(yaml_data.keys, MainKeys, 1)
    IN IF missing # 0
       THEN [kind |-> "raise", exc |-> <<"KeyError", MainKeys[missing]>>]
       ELSE LET rs == BuildRepos(yaml_data, 1, <<>>)
            IN IF ~rs.ok
               THEN [kind |-> "return", config |-> <<>>, err_msg |-> rs.err]
               ELSE [kind |-> "return",
                     config |-> <<[type |-> "MainConfig",
                                   versions |-> yaml_data.versions,
                                   arches |-> yaml_data.arches,
                                   required_protocols |-> yaml_data.required_protocols,
                                   repos |-> rs.value]>>,
                     err_msg |-> <<>>]

\* get_config, after load_yaml: the MainConfig, or None (here <<>>)
get_config(config_data) ==
    LET v == config_validation(config_data)
    IN IF ~v.ok THEN [kind |-> "return", value |-> <<>>]
       ELSE LET r == process_main_config(config_data)
            IN IF r.kind = "raise" THEN r
               ELSE IF r.err_msg # <<>> THEN [kind |-> "return", value |-> <<>>]
               ELSE [kind |-> "return", value |-> r.config]

----------------------------------------------------------------------------
(* get_mirror_config and get_mirrors_info *)

\* load_yaml: the document, or the exception of open() or of yaml.safe_load()
load_yaml(file) ==
    IF file.state = "unreadable" THEN [kind |-> "raise", exc |-> <<"OSError", file.name>>]
    ELSE IF file.state = "unparsable" THEN [kind |-> "raise", exc |-> <<"YAMLError", file.name>>]
    ELSE [kind |-> "return", value |-> file.data]

\* get_mirror_config: the config, None (here <<>>), or an exception
get_mirror_config(file) ==
    LET y == load_yaml(file)
    IN IF y.kind = "raise" THEN y
       ELSE LET v == config_validation(y.value)
            IN IF ~v.ok THEN [kind |-> "return", value |-> <<>>]
               ELSE LET r == process_main_config(y.value)
                    IN IF r.kind = "raise" THEN r
                       ELSE IF r.err_msg # <<>> THEN [kind |-> "return", value |-> <<>>]
                       ELSE [kind |-> "return", value |-> r.config]

----------------------------------------------------------------------------
(* mirror_available: the helpers *)

HTTP_OK == 200

\* What one request can end with: a response with a status, or an exception
\* raised by the HTTP client (ClientError) or by the timeout (TimeoutError).
Status(n) == [kind |-> "status", status |-> n]
Raises(e) == [kind |-> e, status |-> 0]
Outcomes == {Status(200), Status(404), Raises("ClientError"), Raises("TimeoutError")}

\* the exemption of the private mirrors left out
PrivateExemptNever(mirror_info) == FALSE

\* `if mirror_info.private`
PrivateExempt(mirror_info) == mirror_info.private

\* next(address for protocol_type, address in urls.items()
\*      if protocol_type in required_protocols):
\* the index of the first item of urls, in the order of the dict, whose key is
\* in required_protocols; 0 stands for StopIteration
RECURSIVE SelectUrlFrom(_, _, _)
SelectUrlFrom(urls, protocols, i) ==
    IF i > Len(urls) THEN 0
    ELSE IF InList(urls[i].type, protocols) THEN i
    ELSE SelectUrlFrom(urls, protocols, i + 1)

\* the first address of the mirror, whatever its protocol
SelectUrlFirst(urls, protocols) == IF urls = <<>> THEN 0 ELSE 1

SelectUrl(urls, protocols) == SelectUrlFrom(urls, protocols, 1)

\* `repo_data.arches or arches`: an empty list is falsy
EffectiveArches(repo_data, localArches) ==
    IF repo_data.arches # <<>> THEN repo_data.arches ELSE localArches

\* the list of the caller written in place (`arches[:] = ...`)
CallerArchesWritten(callerArches, bound) == bound

\* `arches = ...` binds the local name of the coroutine; the list object the
\* caller passed is not written
CallerArchesAfterBind(callerArches, bound) == callerArches

\* os.path.join(mirror_url, str(version), repo_path, 'repodata/repomd.xml')
CheckUrl(mirror_url, version, repo_path) ==
    PathJoin(<<mirror_url, <<ToStr(version)>>, repo_path,
               <<"repodata", "/", "repomd.xml">>>>)

\* any response lets the loops go on, only an exception stops them
RespOkAnyStatus(o) == o.kind = "status"

\* the response lets the loops go on: no exception and `resp.status == 200`
RespOk(o) == o.kind = "status" /\ o.status = HTTP_OK

\* The position of the two nested loops, <<index in versions, index in repos>>;
\* Done when the loops are exhausted.
Done == <<0, 0>>

FirstPos(nv, nr) == IF nv = 0 \/ nr = 0 THEN Done ELSE <<1, 1>>

\* the loops exchanged: repos outer, versions inner
NextPosReposOuter(vi, ri, nv, nr) ==
    IF vi < nv THEN <<vi + 1, ri>>
    ELSE IF ri < nr THEN <<1, ri + 1>>
    ELSE Done

NextPos(vi, ri, nv, nr) ==
    IF ri < nr THEN <<vi, ri + 1>>
    ELSE IF vi < nv THEN <<vi + 1, 1>>
    ELSE Done

\* The request of the loop body at position pos, with `arches` bound to bound:
\* the version and the repo it is for, the arch put in place of $basearch and
\* the URL that is fetched
Request(pos, bound, mirror_url, vs, rs) ==
    LET repo_path == Replace(rs[pos[2]].path, "$basearch", bound[1])
    IN [v |-> pos[1], r |-> pos[2], arch |-> bound[1],
        url |-> CheckUrl(mirror_url, vs[pos[1]], repo_path)]

----------------------------------------------------------------------------
(* mirror_available: the coroutine, one action per stretch between awaits *)

Probes == DOMAIN mirrors

NoFrame == [arches |-> <<>>, mirror_url |-> <<>>, vi |-> 0, ri |-> 0]

Return(p, available) ==
    /\ pc' = [pc EXCEPT ![p] = "returned"]
    /\ result' = [result EXCEPT ![p] = <<mirrors[p].name, available>>]

\* The body of the loops at position pos, up to the request it awaits; with
\* the loops exhausted, the final `return mirror_name, True`.
Iterate(p, pos, localArches, mirror_url) ==
    IF pos = Done
    THEN /\ Return(p, TRUE)
         /\ UNCHANGED <<frame, reqs, arches>>
    ELSE LET repo_data == repos[pos[2]]
             bound == EffectiveArches(repo_data, localArches)
             fr == [arches |-> bound, mirror_url |-> mirror_url,
                    vi |-> pos[1], ri |-> pos[2]]
         IN /\ frame' = [frame EXCEPT ![p] = fr]
            /\ arches' = CallerArchesAfterBind(arches, bound)
            /\ IF bound = <<>>
               THEN \* arches[0] raises IndexError, which nothing catches
                    /\ pc' = [pc EXCEPT ![p] = "raised"]
                    /\ UNCHANGED <<reqs, result>>
               ELSE /\ reqs' = [reqs EXCEPT ![p] = Append(@,
                                     Request(pos, bound, mirror_url, versions, repos))]
                    /\ pc' = [pc EXCEPT ![p] = "awaiting"]
                    /\ UNCHANGED result

\* From the call to the first await, or to the return that comes before it
Begin(p) ==
    /\ pc[p] = "start"
    /\ IF PrivateExempt(mirrors[p])
       THEN /\ Return(p, TRUE)
            /\ UNCHANGED <<frame, reqs, arches>>
       ELSE LET k == SelectUrl(mirrors[p].urls, required_protocols)
            IN IF k = 0
               THEN /\ Return(p, FALSE)
                    /\ UNCHANGED <<frame, reqs, arches>>
               ELSE Iterate(p, FirstPos(Len(versions), Len(repos)), arches,
                            mirrors[p].urls[k].address)
    /\ UNCHANGED <<mirrors, versions, repos, required_protocols, net, resps,
                   call, prev, caller0, loadVars, discVars>>

\* The awaited request ends; the network answers a URL it has answered before
\* the way it did then.
Respond(p) ==
    /\ pc[p] = "awaiting"
    /\ LET u == reqs[p][Len(reqs[p])].url
       IN \E o \in Outcomes :
            /\ u \in DOMAIN net => o = net[u]
            /\ net' = net @@ (u :> o)
            /\ resps' = [resps EXCEPT ![p] = Append(@, o)]
            /\ IF RespOk(o)
               THEN Iterate(p, NextPos(frame[p].vi, frame[p].ri,
                                       Len(versions), Len(repos)),
                            frame[p].arches, frame[p].mirror_url)
               ELSE /\ Return(p, FALSE)
                    /\ UNCHANGED <<frame, reqs, arches>>
    /\ UNCHANGED <<mirrors, versions, repos, required_protocols,
                   call, prev, caller0, loadVars, discVars>>

Ended(p) == pc[p] \in {"returned", "raised"}

UrlsOf(rs) == [i \in 1..Len(rs) |-> rs[i].url]

\* The caller invokes the probe a second time, with the same objects
Reinvoke(p) ==
    /\ call = "first"
    /\ Ended(p)
    /\ call' = "second"
    /\ prev' = [pc |-> pc[p], result |-> result[p], urls |-> UrlsOf(reqs[p])]
    /\ pc' = [pc EXCEPT ![p] = "start"]
    /\ frame' = [frame EXCEPT ![p] = NoFrame]
    /\ reqs' = [reqs EXCEPT ![p] = <<>>]
    /\ resps' = [resps EXCEPT ![p] = <<>>]
    /\ result' = [result EXCEPT ![p] = <<>>]
    /\ UNCHANGED <<mirrors, versions, repos, arches, required_protocols, net,
                   caller0, loadVars, discVars>>

----------------------------------------------------------------------------
(* The inputs of the probes *)

Url(type, name) == [type |-> type, address |-> <<type \o "://" \o name>>]

\* the `address` mappings of a mirror config, in the order of the file
UrlChoices(name) ==
    { <<>>,
      <<Url("https", name)>>,
      <<Url("http", name), Url("https", name)>>,
      <<Url("rsync", name)>>,
      <<Url("rsync", name), Url("http", name)>> }

MirrorChoices(name) ==
    { [name |-> name, private |-> pr, urls |-> us] :
        pr \in BOOLEAN, us \in UrlChoices(name) }

ProtocolChoices == { <<>>, <<"https">>, <<"https", "http">> }

\* the i-th version of the main config: YAML reads 8 as an int, "9.1" as a str
VersionAt(i) == IF i % 2 = 1 THEN PyInt(7 + i) ELSE PyStr(IntToStr(7 + i) \o ".1")

VersionLists == { [i \in 1..n |-> VersionAt(i)] : n \in 0..MaxVersions }

RepoPaths == << <<"$basearch", "/", "baseos">>,
                <<"extras", "/", "$basearch", "/", "os">>,
                <<"/", "vault", "/", "$basearch">>,
                <<"plain">> >>

RepoNameAt(i) == "repo" \o IntToStr(i)
RepoPathAt(i) == RepoPaths[((i - 1) % Len(RepoPaths)) + 1]

RepoArchChoices == { <<>>, <<"aarch64">>, <<"ppc64le", "x86_64">> }

ArchChoices == { <<>>, <<"x86_64">>, <<"x86_64", "aarch64">> }

RepoAt(i, as) ==
    [name |-> RepoNameAt(i), path |-> RepoPathAt(i), arches |-> as, versions |-> <<>>]

RepoLists ==
    UNION { { [i \in 1..n |-> RepoAt(i, f[i])] : f \in [1..n -> RepoArchChoices] } :
            n \in 0..MaxRepos }

Caller == [mirrors |-> mirrors, versions |-> versions, repos |-> repos,
           arches |-> arches, required_protocols |-> required_protocols]

NoPrev == [pc |-> "none", result |-> <<>>, urls |-> <<>>]

IdleLoad == /\ doc = <<>>
            /\ loaded = <<>>

IdleDiscovery == /\ files = <<>>
                 /\ fidx = 0
                 /\ found = <<>>
                 /\ dstate = "idle"

ProbeStart ==
    /\ net = <<>>
    /\ pc = [p \in Probes |-> "start"]
    /\ frame = [p \in Probes |-> NoFrame]
    /\ reqs = [p \in Probes |-> <<>>]
    /\ resps = [p \in Probes |-> <<>>]
    /\ result = [p \in Probes |-> <<>>]
    /\ call = "first"
    /\ prev = NoPrev
    /\ caller0 = Caller

\* One mirror, probed twice in a row
Init ==
    /\ mirrors \in { <<m>> : m \in MirrorChoices("m1") }
    /\ versions \in VersionLists
    /\ repos \in RepoLists
    /\ arches \in ArchChoices
    /\ required_protocols \in ProtocolChoices
    /\ ProbeStart
    /\ IdleLoad
    /\ IdleDiscovery

Next ==
    \/ \E p \in Probes : Begin(p)
    \/ \E p \in Probes : Respond(p)
    \/ \E p \in Probes : Reinvoke(p)

Spec == Init /\ [][Next]_vars

----------------------------------------------------------------------------
(* Two mirrors probed concurrently, interleaved at the awaits *)

\* the mirrors of the concurrent runs: private or not, reachable by https or
\* by rsync only
ConcurrentMirrorChoices(name) ==
    { m \in MirrorChoices(name) : Len(m.urls) = 1 }

InitConcurrent ==
    /\ mirrors \in { <<m1, m2>> : m1 \in ConcurrentMirrorChoices("m1"),
                                  m2 \in ConcurrentMirrorChoices("m2") }
    /\ versions \in VersionLists
    /\ repos \in RepoLists
    /\ arches \in ArchChoices
    /\ required_protocols \in ProtocolChoices
    /\ ProbeStart
    /\ IdleLoad
    /\ IdleDiscovery

NextConcurrent ==
    \/ \E p \in Probes : Begin(p)
    \/ \E p \in Probes : Respond(p)

SpecConcurrent == InitConcurrent /\ [][NextConcurrent]_vars

\* mirror_available run to its end without any other coroutine, on the
\* arguments the caller built and against the answers in net; "awaiting" when
\* net has no answer for the URL it asks for
RECURSIVE AloneFrom(_, _, _, _, _)
AloneFrom(m, pos, localArches, mirror_url, rs) ==
    IF pos = Done
    THEN [pc |-> "returned", result |-> <<m.name, TRUE>>, reqs |-> rs]
    ELSE LET bound == EffectiveArches(caller0.repos[pos[2]], localArches)
         IN IF bound = <<>>
            THEN [pc |-> "raised", result |-> <<>>, reqs |-> rs]
            ELSE LET rq == Request(pos, bound, mirror_url,
                                   caller0.versions, caller0.repos)
                     rs2 == Append(rs, rq)
                 IN IF rq.url \notin DOMAIN net
                    THEN [pc |-> "awaiting", result |-> <<>>, reqs |-> rs2]
                    ELSE IF RespOk(net[rq.url])
                    THEN AloneFrom(m, NextPos(pos[1], pos[2], Len(caller0.versions),
                                              Len(caller0.repos)),
                                   bound, mirror_url, rs2)
                    ELSE [pc |-> "returned", result |-> <<m.name, FALSE>>,
                          reqs |-> rs2]

Alone(m) ==
    IF PrivateExempt(m)
    THEN [pc |-> "returned", result |-> <<m.name, TRUE>>, reqs |-> <<>>]
    ELSE LET k == SelectUrl(m.urls, caller0.required_protocols)
         IN IF k = 0
            THEN [pc |-> "returned", result |-> <<m.name, FALSE>>, reqs |-> <<>>]
            ELSE AloneFrom(m, FirstPos(Len(caller0.versions), Len(caller0.repos)),
                           caller0.arches, m.urls[k].address, <<>>)

----------------------------------------------------------------------------
(* The main config is loaded *)

IdleProbes ==
    /\ mirrors = <<>>
    /\ versions = <<>>
    /\ repos = <<>>
    /\ arches = <<>>
    /\ required_protocols = <<>>
    /\ ProbeStart

RepoVersionChoices == { <<>>, <<VersionAt(1)>>, <<VersionAt(2), VersionAt(1)>>,
                        <<PyStr("x86_64")>> }

RepoDocArchChoices == { <<>>, <<"x86_64">>, <<"x86_64", "aarch64">>, <<"s390x">> }

\* the i-th item of `repos`; an empty list stands both for the key being
\* absent and for its being an empty list
RepoDoc(i, as, vs) ==
    [name |-> RepoNameAt(i), path |-> RepoPathAt(i), arches |-> as, versions |-> vs,
     keys |-> {"name", "path"} \cup (IF as = <<>> /\ i % 2 = 1 THEN {} ELSE {"arches"})
                              \cup (IF vs = <<>> /\ i % 2 = 0 THEN {} ELSE {"versions"})]

RepoDocLists ==
    UNION { { [i \in 1..n |-> RepoDoc(i, a[i], v[i])] :
                a \in [1..n -> RepoDocArchChoices], v \in [1..n -> RepoVersionChoices] } :
            n \in 0..MaxRepos }

MainDocs ==
    { [keys |-> { MainKeys[i] : i \in 1..Len(MainKeys) }, schema_valid |-> sv,
       versions |-> vs, arches |-> as, required_protocols |-> <<"https", "http">>,
       repos |-> rs] :
        sv \in BOOLEAN, vs \in VersionLists \ {<<>>},
        as \in { <<"x86_64">>, <<"x86_64", "aarch64">> }, rs \in RepoDocLists }

InitLoad ==
    /\ doc \in MainDocs
    /\ loaded = <<>>
    /\ IdleProbes
    /\ IdleDiscovery

\* get_config is called on the document
GetConfig ==
    /\ loaded = <<>>
    /\ loaded' = <<get_config(doc)>>
    /\ UNCHANGED <<doc, probeVars, discVars>>

NextLoad == GetConfig

SpecLoad == InitLoad /\ [][NextLoad]_vars

----------------------------------------------------------------------------
(* The mirrors directory is read *)

MirrorKeys == {"name", "update_frequency", "sponsor", "sponsor_url", "address"}

MirrorDoc(name, sv) ==
    [keys |-> MirrorKeys, schema_valid |-> sv, name |-> name,
     address |-> <<Url("https", name)>>]

FileStates == {"unreadable", "unparsable", "schema_invalid", "valid"}

FileAt(i, st) ==
    [name |-> "mirror" \o IntToStr(i) \o ".yml", state |-> st,
     data |-> MirrorDoc("mirror" \o IntToStr(i), st = "valid")]

FileLists ==
    UNION { { [i \in 1..n |-> FileAt(i, f[i])] : f \in [1..n -> FileStates] } :
            n \in 0..MaxFiles }

InitDiscovery ==
    /\ files \in FileLists
    /\ fidx = 0
    /\ found = <<>>
    /\ dstate = "running"
    /\ IdleProbes
    /\ IdleLoad

\* one round of the loop of get_mirrors_info
DiscoverFile ==
    /\ dstate = "running"
    /\ fidx < Len(files)
    /\ LET mirror_info == get_mirror_config(files[fidx + 1])
       IN /\ fidx' = fidx + 1
          /\ IF mirror_info.kind = "raise"
             THEN dstate' = "raised" /\ found' = found
             ELSE /\ dstate' = dstate
                  /\ found' = IF mirror_info.value # <<>>
                              THEN Append(found, mirror_info.value[1])
                              ELSE found
    /\ UNCHANGED <<files, probeVars, loadVars>>

\* `return result`
DiscoverReturn ==
    /\ dstate = "running"
    /\ fidx = Len(files)
    /\ dstate' = "returned"
    /\ UNCHANGED <<files, fidx, found, probeVars, loadVars>>

NextDiscovery == DiscoverFile \/ DiscoverReturn

SpecDiscovery == InitDiscovery /\ [][NextDiscovery]_vars

----------------------------------------------------------------------------
(* The claims about the loading *)

StrList(list) == [i \in 1..Len(list) |-> ToStr(list[i])]

Subset(list, of) == \A i \in 1..Len(list) : \E j \in 1..Len(of) : list[i] = of[j]

RepoDocsConform(d) ==
    \A i \in 1..Len(d.repos) :
        /\ Subset(d.repos[i].arches, d.arches)
        /\ Subset(StrList(d.repos[i].versions), StrList(d.versions))

Accepted == loaded # <<>> /\ loaded[1].kind = "return" /\ loaded[1].value # <<>>

\* C4: a schema-valid manifest is accepted exactly when the arches of every
\* repo are among the top-level arches and its versions among the top-level
\* versions; an accepted manifest keeps the arches and versions of each repo,
\* and a violating one yields no manifest.
C4_ManifestInvariant ==
    (loaded # <<>> /\ doc.schema_valid) =>
        /\ Accepted <=> RepoDocsConform(doc)
        /\ Accepted =>
               \A i \in 1..Len(doc.repos) :
                   /\ loaded[1].value[1].repos[i].arches = doc.repos[i].arches
                   /\ loaded[1].value[1].repos[i].versions
                          = StrList(doc.repos[i].versions)

\* C5: discovery never ends by an exception, and returns one MirrorData for
\* each schema-valid file, skipping the unreadable, unparsable and
\* schema-invalid ones.
C5_DiscoverySkipsBadFiles ==
    /\ dstate # "raised"
    /\ dstate = "returned" =>
           /\ Len(found) = Cardinality({ i \in 1..Len(files) : files[i].state = "valid" })
           /\ \A i \in 1..Len(found) : found[i].type = "MirrorData"

----------------------------------------------------------------------------
(* The claims about mirror_available *)

HasMatchingProtocol(p) ==
    \E i \in 1..Len(mirrors[p].urls) :
        \E j \in 1..Len(required_protocols) :
            mirrors[p].urls[i].type = required_protocols[j]

Got200(o) == o = [kind |-> "status", status |-> 200]

AllPairs200(p) ==
    \A v \in 1..Len(versions) : \A r \in 1..Len(repos) :
        \E i \in 1..Len(resps[p]) :
            reqs[p][i].v = v /\ reqs[p][i].r = r /\ Got200(resps[p][i])

FirstFailureAt(p, k) ==
    /\ k \in 1..Len(resps[p])
    /\ ~Got200(resps[p][k])
    /\ \A j \in 1..(k - 1) : Got200(resps[p][j])

\* C1: a non-private mirror with a matching protocol is reported available
\* exactly when every (version, repo) pair of the cross product got a 200; when
\* the k-th check is the first to fail the probe has returned (name, false)
\* and exactly k requests were issued.
C1_VerdictIsConjunction ==
    \A p \in Probes :
        (~mirrors[p].private /\ HasMatchingProtocol(p)) =>
            /\ pc[p] = "returned" =>
                   result[p] = <<mirrors[p].name, AllPairs200(p)>>
            /\ \A k \in 1..Len(reqs[p]) :
                   FirstFailureAt(p, k) =>
                       /\ pc[p] = "returned"
                       /\ result[p] = <<mirrors[p].name, FALSE>>
                       /\ Len(reqs[p]) = k

C1_Witness ==
    \E p \in Probes :
        /\ ~mirrors[p].private
        /\ pc[p] = "returned"
        /\ Len(reqs[p]) >= 2
        /\ Len(reqs[p]) < Len(versions) * Len(repos)
        /\ FirstFailureAt(p, Len(reqs[p]))

\* C2: a private mirror is reported available and no request is ever issued
\* for it, whatever the other arguments.
C2_PrivateExempt ==
    \A p \in Probes :
        mirrors[p].private =>
            /\ reqs[p] = <<>>
            /\ pc[p] \in {"start", "returned"}
            /\ pc[p] = "returned" => result[p] = <<mirrors[p].name, TRUE>>

C2_Witness ==
    \E p \in Probes :
        /\ mirrors[p].private
        /\ pc[p] = "returned"
        /\ HasMatchingProtocol(p)
        /\ versions # <<>>
        /\ repos # <<>>

\* C3: a non-private mirror none of whose urls keys is in required_protocols
\* is reported unavailable and no request is ever issued for it.
C3_NoProtocol ==
    \A p \in Probes :
        (~mirrors[p].private /\ ~HasMatchingProtocol(p)) =>
            /\ reqs[p] = <<>>
            /\ pc[p] \in {"start", "returned"}
            /\ pc[p] = "returned" => result[p] = <<mirrors[p].name, FALSE>>

C3_Witness ==
    \E p \in Probes :
        /\ ~mirrors[p].private
        /\ ~HasMatchingProtocol(p)
        /\ mirrors[p].urls # <<>>
        /\ required_protocols # <<>>
        /\ versions # <<>>
        /\ repos # <<>>
        /\ pc[p] = "returned"

\* C6: the arch of every request issued is the first element of the arches of
\* its repo when that list is non-empty, and else the first element of the
\* default arches list of the caller, whatever the repos checked before.
C6_ArchOfRequest ==
    \A p \in Probes :
        \A i \in 1..Len(reqs[p]) :
            LET repo_data == repos[reqs[p][i].r]
                expected == IF repo_data.arches # <<>> THEN repo_data.arches
                            ELSE caller0.arches
            IN expected # <<>> => reqs[p][i].arch = expected[1]

\* C7: a second invocation with the same arguments and the same answers ends
\* the way the first did, with the same verdict and the same requested URLs,
\* and the arguments of the caller are as they were before the first.
C7_Idempotent ==
    /\ Caller = caller0
    /\ \A p \in Probes :
           (call = "second" /\ Ended(p)) =>
               /\ pc[p] = prev.pc
               /\ result[p] = prev.result
               /\ UrlsOf(reqs[p]) = prev.urls

C7_Witness ==
    \E p \in Probes :
        /\ call = "second"
        /\ pc[p] = "returned"
        /\ Len(reqs[p]) >= 2
        /\ \E i, j \in 1..Len(repos) :
               i < j /\ repos[i].arches # <<>> /\ repos[j].arches = <<>>

\* C8: the requests of a probe are a prefix of the cross product enumerated
\* with versions outer and repos inner: the i-th request is for the i-th pair
\* of that order, so none comes early and none is repeated.
C8_RequestOrder ==
    \A p \in Probes :
        /\ Len(reqs[p]) <= Len(versions) * Len(repos)
        /\ \A i \in 1..Len(reqs[p]) :
               /\ reqs[p][i].v = ((i - 1) \div Len(repos)) + 1
               /\ reqs[p][i].r = ((i - 1) % Len(repos)) + 1

C8_Witness ==
    \E p \in Probes :
        /\ Len(repos) >= 2
        /\ Len(reqs[p]) > Len(repos)

\* C9: probes interleaved at their awaits leave the shared arguments as the
\* caller built them, and each ends as it would have ended running alone
\* against the same answers.
C9_Isolation ==
    /\ Caller = caller0
    /\ \A p \in Probes :
           Ended(p) =>
               [pc |-> pc[p], result |-> result[p], reqs |-> reqs[p]]
                   = Alone(mirrors[p])

C9_Witness ==
    /\ Len(mirrors) >= 2
    /\ \A p \in Probes : pc[p] = "returned" /\ Len(reqs[p]) >= 2
    /\ \E i, j \in 1..Len(repos) :
           i < j /\ repos[i].arches = <<>> /\ repos[j].arches # <<>>

\* C10: every probe ends with a verdict: it never ends other than by
\* returning (name, true) or (name, false).
C10_EndsWithVerdict ==
    \A p \in Probes :
        Ended(p) =>
            /\ pc[p] = "returned"
            /\ result[p] \in { <<mirrors[p].name, b>> : b \in BOOLEAN }

====
